---- MODULE Spec2Model ----
(***************************************************************************)
(* A model of poker_chip_split: ChipSplitCalculator.calculate_optimal_split *)
(* (calculator.py) with its Quantity Search (_evaluate_distribution, the    *)
(* batch worker _evaluate_combinations_batch, _evaluate_distribution_sampled)*)
(* and its fallback, and the ChipSet / ChipDistribution records (models.py).*)
(*                                                                         *)
(* Money is counted in quarter dollars: a chip value v models v * 0.25 $,  *)
(* and so does a buy-in.  Every value of the default ladder is a whole     *)
(* number of quarters, so sums, differences and comparisons of the code's  *)
(* floats are exact here.  A quotient the code computes as a float is kept *)
(* as a fraction [num, den] (den > 0) and compared by cross-multiplying.   *)
(*                                                                         *)
(* A Python dict is a sequence of [key, val] entries in insertion order:   *)
(* the order is observable (dict.values(), zip).  None is a sentinel       *)
(* record of the type at hand.                                              *)
(***************************************************************************)
EXTENDS Integers, Sequences, FiniteSets, TLC

(* ------------------------------ bounds -------------------------------- *)

\* Largest number of colors of a generated inventory.
MaxColors == 2
\* Largest small chip count of a generated inventory (counts are 0..MaxCount).
MaxCount == 3
\* Largest participant count of a generated input (1..MaxPlayers).
MaxPlayers == 2
\* The chip count of a color large enough to push Quantity Search over its
\* threshold, into the sampled search.
BigCount == 1000000
\* Largest per-player quantity and unused count of a free-standing
\* ChipDistribution (the records of SpecModels).
MaxQuantity == 2

ColorNames == <<"white", "red", "green", "black", "blue">>

\* The buy-ins of the generated inputs: 1.00 $ and 2.50 $.
BuyIns == {4, 10}

(* ------------------------- program constants -------------------------- *)

\* calculator.py:20, in quarter dollars.
DEFAULT_CHIP_VALUES == <<1, 2, 4, 8, 20, 40, 100, 200, 400>>

\* calculator.py:243
max_combinations_threshold == 200000

\* calculator.py:256, the least batch size
MinBatchSize == 1000

(* ------------------------------ helpers ------------------------------- *)

RECURSIVE SumSeq(_)
SumSeq(s) == IF s = <<>> THEN 0 ELSE Head(s) + SumSeq(Tail(s))

RECURSIVE ProdSeq(_)
ProdSeq(s) == IF s = <<>> THEN 1 ELSE Head(s) * ProdSeq(Tail(s))

Abs(x) == IF x < 0 THEN 0 - x ELSE x

Min2(a, b) == IF b < a THEN b ELSE a

Max2(a, b) == IF b > a THEN b ELSE a

\* dict(zip(keys, vals)) for distinct keys
Zip(keys, vals) == [i \in 1..Len(keys) |-> [key |-> keys[i], val |-> vals[i]]]

\* list(d.keys()) and list(d.values())
Keys(d) == [i \in 1..Len(d) |-> d[i].key]

Values(d) == [i \in 1..Len(d) |-> d[i].val]

HasKey(d, k) == \E i \in 1..Len(d) : d[i].key = k

\* d[k]
Get(d, k) == d[CHOOSE i \in 1..Len(d) : d[i].key = k].val

\* d.get(k, default)
GetOr(d, k, default) == IF HasKey(d, k) THEN Get(d, k) ELSE default

\* sorted(s, key=...), keys[i] being the key of s[i]: a stable sort, as Python's
SortedBy(s, keys) ==
    LET n == Len(s)
        pos == [i \in 1..n |->
                  Cardinality({j \in 1..n :
                      \/ keys[j] < keys[i]
                      \/ keys[j] = keys[i] /\ j < i}) + 1]
    IN [p \in 1..n |-> s[CHOOSE i \in 1..n : pos[i] = p]]

\* a fraction num/den with den > 0
Frac(n, d) == [num |-> n, den |-> d]

FracLess(a, b) == a.num * b.den < b.num * a.den

FracEq(a, b) == a.num * b.den = b.num * a.den

(* ----------------------------- models.py ------------------------------ *)

\* ChipSet.get_color_count
get_color_count(cs, color) == GetOr(cs, color, 0)

\* The ChipDistribution dataclass; num_players defaults to 1.
ChipDistribution(cv, cpp, total, unused, np) ==
    [chip_values |-> cv, chips_per_player |-> cpp,
     total_value_per_player |-> total, unused_chips |-> unused,
     num_players |-> np]

\* None where a ChipDistribution is expected
NoDistribution == ChipDistribution(<<>>, <<>>, 0 - 1, <<>>, 0)

\* ChipDistribution.get_player_value: zip pairs the two dicts' values by
\* position, and stops at the shorter.
get_player_value(d) ==
    LET n == Min2(Len(d.chip_values), Len(d.chips_per_player))
    IN SumSeq([i \in 1..n |-> d.chip_values[i].val * d.chips_per_player[i].val])

\* ChipDistribution.get_total_unused_chips
get_total_unused_chips(d) == SumSeq(Values(d.unused_chips))

\* The two totals get_efficiency accumulates over the keys of chips_per_player.
total_used_chips(d) ==
    SumSeq([i \in 1..Len(d.chips_per_player) |->
              d.chips_per_player[i].val * d.num_players])

total_available_chips(d) ==
    SumSeq([i \in 1..Len(d.chips_per_player) |->
              d.chips_per_player[i].val * d.num_players
                + GetOr(d.unused_chips, d.chips_per_player[i].key, 0)])

\* A variant of get_efficiency that divides by the unused chips instead of by
\* the available ones.
get_efficiency_over_unused(d) ==
    IF get_total_unused_chips(d) = 0
    THEN Frac(0, 1)
    ELSE Frac(total_used_chips(d) * 100, get_total_unused_chips(d))

\* ChipDistribution.get_efficiency, a percentage kept as a fraction
get_efficiency(d) ==
    IF total_available_chips(d) = 0
    THEN Frac(0, 1)
    ELSE Frac(total_used_chips(d) * 100, total_available_chips(d))

(* ---------------------------- calculator.py --------------------------- *)

\* A score tuple (accuracy_score, chip_count_score); the accuracy is a fraction.
Score(acc, chips) == [accuracy |-> acc, chip_count |-> chips]

\* None where a score is expected
NoScore == Score(Frac(0 - 1, 1), 0 - 1)

\* 1000.0 / (1.0 + error * 100), the error being in dollars (a quarter of e)
accuracy_score(e) == Frac(1000, 1 + 25 * e)

\* accuracy * 100 + chip count, of a score tuple
combined_score(sc) ==
    Frac(100 * sc.accuracy.num + sc.chip_count * sc.accuracy.den, sc.accuracy.den)

\* Python's tuple order on (accuracy, chip count): a > b
ScoreTupleGreater(a, b) ==
    \/ FracLess(b.accuracy, a.accuracy)
    \/ FracEq(a.accuracy, b.accuracy) /\ a.chip_count > b.chip_count

\* A variant of the tolerance test with 0.4 in place of 0.2.
WithinTolerance_wide(e, buy_in) == 5 * e <= 2 * buy_in

\* error <= buy_in_per_person * 0.2
WithinTolerance(e, buy_in) == 5 * e <= buy_in

\* The result of one batch: (best_combination, best_score), (None, None) when
\* no combination of the batch is within tolerance.
BatchResult(comb, sc) == [combination |-> comb, score |-> sc]

NoBatchResult == BatchResult(<<>>, NoScore)

\* _evaluate_combinations_batch: the first combination of the batch, among those
\* within tolerance, with the greatest accuracy * 100 + chip count (np.argmax).
_evaluate_combinations_batch(combinations_batch, colors, chip_values, buy_in) ==
    LET N == Len(combinations_batch)
        values_array == [k \in 1..Len(colors) |-> Get(chip_values, colors[k])]
        total_values_per_player ==
            [i \in 1..N |->
               SumSeq([k \in 1..Len(colors) |->
                         combinations_batch[i][k] * values_array[k]])]
        errors == [i \in 1..N |-> Abs(total_values_per_player[i] - buy_in)]
        valid == {i \in 1..N : WithinTolerance(errors[i], buy_in)}
        scoreOf == [i \in valid |->
                      Score(accuracy_score(errors[i]), SumSeq(combinations_batch[i]))]
        best_idx == CHOOSE i \in valid :
                      \A j \in valid :
                         \/ FracLess(combined_score(scoreOf[j]), combined_score(scoreOf[i]))
                         \/ /\ FracEq(combined_score(scoreOf[j]), combined_score(scoreOf[i]))
                            /\ i <= j
    IN IF valid = {}
       THEN NoBatchResult
       ELSE BatchResult(Zip(colors, combinations_batch[best_idx]), scoreOf[best_idx])

\* calculator.py:224-232: floor(count / num_players) per color, in colors' order
max_chips_per_color(cs, colors, np) ==
    Zip(colors, [k \in 1..Len(colors) |-> get_color_count(cs, colors[k]) \div np])

\* A variant of Infeasible that needs every color to be short.
Infeasible_all(cs, colors, np) ==
    \A k \in 1..Len(colors) : get_color_count(cs, colors[k]) \div np = 0

\* calculator.py:229-230: some color cannot give every player one chip
Infeasible(cs, colors, np) ==
    \E k \in 1..Len(colors) : get_color_count(cs, colors[k]) \div np = 0

\* calculator.py:238-240
total_combinations(cs, colors, np) == ProdSeq(Values(max_chips_per_color(cs, colors, np)))

\* list(itertools.product(*ranges)), each range being 1..max: the last color
\* varies fastest.
all_combinations(maxes) ==
    LET n == Len(maxes)
        stride == [k \in 1..n |-> ProdSeq(SubSeq(maxes, k + 1, n))]
    IN [i \in 1..ProdSeq(maxes) |->
          [k \in 1..n |-> 1 + (((i - 1) \div stride[k]) % maxes[k])]]

\* calculator.py:256
batch_size(total, cores) == Max2(MinBatchSize, total \div (cores * 4))

\* calculator.py:259-262
batches(combos, bs) ==
    LET nb == (Len(combos) + bs - 1) \div bs
    IN [b \in 1..nb |-> SubSeq(combos, (b - 1) * bs + 1, Min2(b * bs, Len(combos)))]

\* calculator.py:280-283: the fold over the workers' results, in batch order
RECURSIVE ReduceResults(_, _)
ReduceResults(results, best) ==
    IF results = <<>> THEN best
    ELSE LET r == Head(results)
         IN ReduceResults(Tail(results),
               IF r # NoBatchResult
                    /\ (best = NoBatchResult \/ ScoreTupleGreater(r.score, best.score))
               THEN r ELSE best)

\* A variant of BuildDistribution whose unused count takes off one player's
\* chips only.
BuildDistribution_one_player(cs, colors, chip_values, best_combination, np) ==
    ChipDistribution(
        chip_values,
        best_combination,
        SumSeq([k \in 1..Len(colors) |->
                  Get(best_combination, colors[k]) * Get(chip_values, colors[k])]),
        Zip(colors, [k \in 1..Len(colors) |->
                  get_color_count(cs, colors[k]) - Get(best_combination, colors[k])]),
        1)

\* calculator.py:288-305 and 406-423: the record built from the best combination.
\* unused_chips is filled in colors' order; num_players is left at its default.
BuildDistribution(cs, colors, chip_values, best_combination, np) ==
    ChipDistribution(
        chip_values,
        best_combination,
        SumSeq([k \in 1..Len(colors) |->
                  Get(best_combination, colors[k]) * Get(chip_values, colors[k])]),
        Zip(colors, [k \in 1..Len(colors) |->
                  get_color_count(cs, colors[k]) - Get(best_combination, colors[k]) * np]),
        1)

\* _evaluate_distribution, lines 251-305: the exhaustive, batched search of a
\* feasible value assignment whose combination space is within the threshold.
exhaustive_search(cs, colors, values, buy_in, np, cores) ==
    LET chip_values == Zip(colors, values)
        maxes == Values(max_chips_per_color(cs, colors, np))
        combos == all_combinations(maxes)
        bs == batch_size(Len(combos), cores)
        bt == batches(combos, bs)
        results == [b \in 1..Len(bt) |->
                      _evaluate_combinations_batch(bt[b], colors, chip_values, buy_in)]
        best == ReduceResults(results, NoBatchResult)
    IN IF best = NoBatchResult
       THEN NoDistribution
       ELSE BuildDistribution(cs, colors, chip_values, best.combination, np)

\* A variant of _create_fallback_distribution that takes the pool's values from
\* its end.
_create_fallback_distribution_reversed(cs, colors, pool) ==
    LET chip_values ==
            Zip(colors, [i \in 1..Len(colors) |->
                           IF i <= Len(pool) THEN pool[Len(pool) + 1 - i] ELSE pool[1]])
        chips_per_player == Zip(colors, [i \in 1..Len(colors) |-> 1])
        total_value == SumSeq(Values(chip_values))
        unused_chips ==
            Zip(colors, [i \in 1..Len(colors) |->
                           Max2(0, get_color_count(cs, colors[i]) - 1)])
    IN ChipDistribution(chip_values, chips_per_player, total_value, unused_chips, 1)

\* _create_fallback_distribution
_create_fallback_distribution(cs, colors, pool) ==
    LET chip_values ==
            Zip(colors, [i \in 1..Len(colors) |->
                           IF i <= Len(pool) THEN pool[i] ELSE pool[Len(pool)]])
        chips_per_player == Zip(colors, [i \in 1..Len(colors) |-> 1])
        total_value == SumSeq(Values(chip_values))
        unused_chips ==
            Zip(colors, [i \in 1..Len(colors) |->
                           Max2(0, get_color_count(cs, colors[i]) - 1)])
    IN ChipDistribution(chip_values, chips_per_player, total_value, unused_chips, 1)

\* n * (n-1) * ... over k factors: calculator.py:136-138
RECURSIVE FallingFactorial(_, _)
FallingFactorial(n, k) == IF k = 0 THEN 1 ELSE n * FallingFactorial(n - 1, k - 1)

RemoveAt(s, i) == SubSeq(s, 1, i - 1) \o SubSeq(s, i + 1, Len(s))

\* A variant of PermutationAt that enumerates itertools.product(items, repeat=k):
\* tuples that may take a position twice.
PermutationAt_with_repeats(items, k, r) ==
    LET n == Len(items)
    IN [j \in 1..k |-> items[((r \div ProdSeq([x \in 1..(k - j) |-> n])) % n) + 1]]

\* The r-th (from 0) tuple of itertools.permutations(items, k): tuples of
\* distinct positions, in lexicographic order of the positions.
RECURSIVE PermutationAt(_, _, _)
PermutationAt(items, k, r) ==
    IF k = 0 THEN <<>>
    ELSE LET block == FallingFactorial(Len(items) - 1, k - 1)
             i == (r \div block) + 1
         IN <<items[i]>> \o PermutationAt(RemoveAt(items, i), k - 1, r % block)

\* calculator.py:117-120
ColorsByAvailability(cs, np) ==
    SortedBy(Keys(cs), [k \in 1..Len(cs) |-> get_color_count(cs, cs[k].key) \div np])

\* calculator.py:123-126
MaxPossibleChips(cs, np) ==
    SumSeq([k \in 1..Len(cs) |-> get_color_count(cs, cs[k].key) \div np])

\* calculator.py:129-133: abs(v - buy_in / max_possible), compared after
\* multiplying by max_possible > 0
SortedValues(pool, buy_in, max_possible) ==
    SortedBy(pool, [i \in 1..Len(pool) |-> Abs(pool[i] * max_possible - buy_in)])

\* calculator.py:160-161: avg_value > buy_in_per_person or avg_value < 0.01 (dollars)
Pruned(value_combination, buy_in) ==
    \/ SumSeq(value_combination) > buy_in * Len(value_combination)
    \/ 25 * SumSeq(value_combination) < Len(value_combination)

(* ------------------ _evaluate_distribution_sampled --------------------- *)

\* int(a / b) for b > 0: Python's int() truncates toward zero
TruncDiv(a, b) == IF a >= 0 THEN a \div b ELSE 0 - ((0 - a) \div b)

\* calculator.py:323: max(1, buy_in // sum(values) * len(colors))
base_chips_per_color(chip_values, buy_in) ==
    Max2(1, (buy_in \div SumSeq(Values(chip_values))) * Len(chip_values))

\* calculator.py:332: the "balanced" seed, a dict in colors' order
balanced_combo(colors, chip_values, maxes, buy_in) ==
    Zip(colors, [k \in 1..Len(colors) |->
                   Min2(base_chips_per_color(chip_values, buy_in), Get(maxes, colors[k]))])

\* calculator.py:336-343 and 347-354: the loop over sorted_colors.  The seed is a
\* dict in the order of sorted_colors; the target of a color is
\* int(remaining_value / (value * f)) with f = fnum / fden.
RECURSIVE focus_combo(_, _, _, _, _, _)
focus_combo(sorted_colors, chip_values, maxes, remaining_value, fnum, fden) ==
    IF sorted_colors = <<>> THEN <<>>
    ELSE LET color == Head(sorted_colors)
             max_chips == Get(maxes, color)
             value == Get(chip_values, color)
             target_chips ==
                 Min2(max_chips,
                      Max2(1, TruncDiv(remaining_value * fden, value * fnum)))
         IN <<[key |-> color, val |-> target_chips]>>
              \o focus_combo(Tail(sorted_colors), chip_values, maxes,
                             remaining_value - target_chips * value, fnum, fden)

\* calculator.py:335: sorted(colors, key=value, reverse=True); equal keys keep
\* their order
high_value_focus(colors, chip_values, maxes, buy_in) ==
    LET keys == [k \in 1..Len(colors) |-> 0 - Get(chip_values, colors[k])]
    IN focus_combo(SortedBy(colors, keys), chip_values, maxes, buy_in, 2, 1)

\* calculator.py:346: sorted(colors, key=value), and f = 1.5
low_value_focus(colors, chip_values, maxes, buy_in) ==
    LET keys == [k \in 1..Len(colors) |-> Get(chip_values, colors[k])]
    IN focus_combo(SortedBy(colors, keys), chip_values, maxes, buy_in, 3, 2)

\* calculator.py:329-356
TargetCombinations(colors, chip_values, maxes, buy_in) ==
    << balanced_combo(colors, chip_values, maxes, buy_in),
       high_value_focus(colors, chip_values, maxes, buy_in),
       low_value_focus(colors, chip_values, maxes, buy_in) >>

\* calculator.py:361: range(100), the variations made of each seed
VariationsPerBase == 100

\* A variant of Adjustments whose upper end is one short.
Adjustments_short(current, max_val) ==
    (0 - Min2(2, current - 1)) .. (Min2(3, max_val - current) - 1)

\* calculator.py:370: the values np.random.randint(-min(2, current - 1),
\* min(3, max_val - current + 1)) can return (its upper end is exclusive)
Adjustments(current, max_val) ==
    (0 - Min2(2, current - 1)) .. (Min2(3, max_val - current + 1) - 1)

\* calculator.py:363-372: every variant one draw can make of base_combo:
\* min(2, len(colors)) distinct colors, each moved by one adjustment.  The
\* variant is a copy of base_combo, so it keeps its key order.
Variants(base_combo, maxes) ==
    LET idx == 1..Len(base_combo)
        size == Min2(2, Len(base_combo))
        choices == {S \in SUBSET idx : Cardinality(S) = size}
        moved(S) == {f \in [S -> (0 - 2)..2] :
                       \A i \in S :
                          f[i] \in Adjustments(base_combo[i].val,
                                               Get(maxes, base_combo[i].key))}
    IN UNION {
         {[i \in idx |->
             [key |-> base_combo[i].key,
              val |-> IF i \in S
                      THEN Max2(1, Min2(Get(maxes, base_combo[i].key),
                                        base_combo[i].val + f[i]))
                      ELSE base_combo[i].val]] : f \in moved(S)}
         : S \in choices}

\* calculator.py:396-397: the score tuple (chips * 10, -error_penalty), the
\* penalty being max(0, error - 0.25) * 100 with the error in dollars
SampledScore(chips, e) ==
    [chips10 |-> chips * 10, neg_penalty |-> 0 - Max2(0, e - 1) * 25]

SampledScoreGreater(a, b) ==
    \/ a.chips10 > b.chips10
    \/ a.chips10 = b.chips10 /\ a.neg_penalty > b.neg_penalty

\* best_combination and best_score of the sampled search; (None, None) at first
SampledBest(comb, sc) == [combination |-> comb, score |-> sc]

NoSampledBest == SampledBest(<<>>, SampledScore(0 - 1, 0))

\* calculator.py:378-401: one pass of the scoring loop, for one candidate
ScoreCandidate(best, chips_per_player, colors, chip_values, buy_in) ==
    LET total_value_per_player ==
            SumSeq([k \in 1..Len(colors) |->
                      Get(chips_per_player, colors[k]) * Get(chip_values, colors[k])])
        error == Abs(total_value_per_player - buy_in)
        score == SampledScore(SumSeq(Values(chips_per_player)), error)
    IN IF ~WithinTolerance(error, buy_in) THEN best
       ELSE IF best = NoSampledBest \/ SampledScoreGreater(score, best.score)
            THEN SampledBest(chips_per_player, score)
            ELSE best

RECURSIVE ScoreCandidates(_, _, _, _, _)
ScoreCandidates(best, candidates, colors, chip_values, buy_in) ==
    IF candidates = <<>> THEN best
    ELSE ScoreCandidates(
             ScoreCandidate(best, Head(candidates), colors, chip_values, buy_in),
             Tail(candidates), colors, chip_values, buy_in)

(* ------------------------------ config.py ------------------------------ *)

\* Values of a configuration are counted in cents: 0.25 $ is 25 and 0.10 $ is 10.

\* One entry of the chip_colors mapping of a parsed configuration file:
\* a number (the legacy format), a dict with an optional count and an optional
\* value, or anything else (kind "other").  An absent field holds 0.
ColorData(kind, has_count, count, has_value, value) ==
    [kind |-> kind, has_count |-> has_count, count |-> count,
     has_value |-> has_value, value |-> value]

\* The parsed configuration file, the argument of PokerConfig.from_dict.
\* missing names the one required top-level key the file lacks, or is "none";
\* chip_values is the file's chip_values list, <<>> when it has none.
ConfigData(buy_in, np, chip_colors, chip_values, missing) ==
    [buy_in_per_person |-> buy_in, num_players |-> np, chip_colors |-> chip_colors,
     chip_values |-> chip_values, missing |-> missing]

\* config.py:18-29, the ChipColor dataclass; value None is has_value = FALSE
ChipColor(count, has_value, value) ==
    [count |-> count, has_value |-> has_value, value |-> value]

\* A variant of ChipColorRaises that lets a value of 0 through.
ChipColorRaises_zero_allowed(count, has_value, value) ==
    \/ count < 0
    \/ has_value /\ value < 0

\* config.py:31-41, ChipColor.__post_init__: does it raise ValueError
ChipColorRaises(count, has_value, value) ==
    \/ count < 0
    \/ has_value /\ value <= 0

\* config.py:44-57, the PokerConfig dataclass
PokerConfig(buy_in, np, chip_colors) ==
    [buy_in_per_person |-> buy_in, num_players |-> np, chip_colors |-> chip_colors]

\* None where a PokerConfig is expected
NoConfig == PokerConfig(0, 0, <<>>)

\* config.py:169-186: does the loop body raise for this entry (KeyError for a
\* dict without count, ValueError from ChipColor, TypeError for another type)
ColorDataRaises(cd) ==
    CASE cd.kind = "number" -> ChipColorRaises(cd.count, FALSE, 0)
      [] cd.kind = "dict" ->
            \/ ~cd.has_count
            \/ ChipColorRaises(cd.count, cd.has_value, cd.value)
      [] OTHER -> TRUE

\* config.py:172-181: the ChipColor of an entry that does not raise
ColorOf(cd) ==
    IF cd.kind = "number" THEN ChipColor(cd.count, FALSE, 0)
    ELSE ChipColor(cd.count, cd.has_value, IF cd.has_value THEN cd.value ELSE 0)

\* The outcome of a call: the exception it raised ("none" if it returned) and
\* the object it returned.
Returned(raised, config) == [raised |-> raised, config |-> config]

\* PokerConfig.from_dict, config.py:143-197.  Every KeyError, ValueError and
\* TypeError of the body leaves as ValueError; the key chip_values is not read.
from_dict(data) ==
    IF \/ data.missing # "none"
       \/ \E i \in 1..Len(data.chip_colors) : ColorDataRaises(data.chip_colors[i].val)
    THEN Returned("ValueError", NoConfig)
    ELSE Returned("none",
            PokerConfig(data.buy_in_per_person, data.num_players,
                [i \in 1..Len(data.chip_colors) |->
                    [key |-> data.chip_colors[i].key,
                     val |-> ColorOf(data.chip_colors[i].val)]]))

\* A variant of has_fixed_values that is content with one fixed value.
has_fixed_values_some(config) ==
    \E i \in 1..Len(config.chip_colors) : config.chip_colors[i].val.has_value

\* config.py:106-113
has_fixed_values(config) ==
    \A i \in 1..Len(config.chip_colors) : config.chip_colors[i].val.has_value

\* config.py:90-94, the colors whose value is None
missing_values(config) ==
    {config.chip_colors[i].key :
        i \in {j \in 1..Len(config.chip_colors) : ~config.chip_colors[j].val.has_value}}

\* PokerConfig.get_fixed_chip_values, config.py:79-104: the exception raised,
\* the colors its message names, and the dict returned
get_fixed_chip_values(config) ==
    IF missing_values(config) # {}
    THEN [raised |-> "ValueError", missing |-> missing_values(config), values |-> <<>>]
    ELSE [raised |-> "none", missing |-> {},
          values |-> [i \in 1..Len(config.chip_colors) |->
                        [key |-> config.chip_colors[i].key,
                         val |-> config.chip_colors[i].val.value]]]

(* ------------------------------- state -------------------------------- *)

VARIABLES
    chip_set,                \* the ChipSet's colors dict
    possible_values,         \* ChipSplitCalculator.possible_values
    buy_in_per_person,
    num_players,
    num_cores,               \* mp.cpu_count()
    pc,                      \* where calculate_optimal_split stands
    colors_by_availability,
    max_possible_chips,
    sorted_values,
    permutations_checked,
    pruned_count,
    value_combination,       \* the permutation at hand
    evaluations,             \* calls of _evaluate_distribution so far
    passed,                  \* of which returned a record
    distribution,            \* what the last call returned
    best_distribution,
    best_score,
    target_combinations,     \* the sampled search's seeds
    base_idx,                \* the seed whose variations come next
    variant,                 \* the variation scored last
    sampled_best,            \* the sampled search's best_combination / best_score
    candidates_scored,       \* entries of all_candidates the scoring loop has passed
    ranges,                  \* _evaluate_distribution's ranges, <<>> until built
    worker_results,          \* per batch of pool.map: its result, Pending until done
    finished,                \* the batches in the order their workers finished
    result,                  \* the record calculate_optimal_split returned
    outcome,                 \* how the call ended
    player_value,            \* result.get_player_value(), once called
    efficiency,              \* result.get_efficiency(), once called
    command,                 \* what runs on the configuration: from_dict or distribute
    config_data,             \* the parsed configuration file
    cli_pc,                  \* where the command stands
    config,                  \* the PokerConfig from_dict returned
    raised,                  \* the exception the command met, "none" if none
    fixed_values,            \* distribute_command's fixed_values
    calculator_calls,        \* calls of a ChipSplitCalculator method that ran
    exit_status              \* the command's return value, -1 while it runs

inputs == <<chip_set, possible_values, buy_in_per_person, num_players, num_cores>>

search == <<colors_by_availability, max_possible_chips, sorted_values>>

loop == <<permutations_checked, pruned_count, value_combination, evaluations,
          passed, distribution, best_distribution, best_score>>

sampling == <<target_combinations, base_idx, variant, sampled_best,
              candidates_scored>>

derived == <<player_value, efficiency>>

workers == <<ranges, worker_results, finished>>

cli == <<command, config_data, cli_pc, config, raised, fixed_values,
         calculator_calls, exit_status>>

vars == <<inputs, pc, search, loop, sampling, workers, result, outcome, derived, cli>>

\* a value not computed yet
NotCalled == Frac(0, 0)

(* ------------------------------- inputs ------------------------------- *)

\* Inventories of 1..MaxColors colors with counts 0..MaxCount.
SmallInventories ==
    UNION {{Zip(SubSeq(ColorNames, 1, n), counts) : counts \in [1..n -> 0..MaxCount]}
           : n \in 1..MaxColors}

\* Custom pools: 0.25/0.50/1.00, an unsorted 5.00/1.00/0.25, a single 1.00 and
\* a pool holding 0.50 twice.
Pools == {<<1, 2, 4>>, <<20, 4, 1>>, <<4>>, <<2, 2>>}

Input(cs, pool, buy_in, np) ==
    [chip_set |-> cs, possible_values |-> pool, buy_in |-> buy_in, num_players |-> np]

GeneratedInputs ==
    {Input(cs, pool, b, np) :
        cs \in SmallInventories, pool \in Pools, b \in BuyIns, np \in 1..MaxPlayers}

\* Inputs with one color of BigCount chips: their combination space is over
\* the threshold, so Quantity Search samples.  The buy-in is 10.00 $.
SampledInputs ==
    {Input(Zip(<<"white">>, <<BigCount>>), pool, 40, np) :
        pool \in {<<1, 2, 4>>, <<20, 4, 1>>}, np \in 1..MaxPlayers}
    \cup
    {Input(Zip(<<"white", "red">>, counts), <<4, 1>>, 40, 1) :
        counts \in {<<BigCount, MaxCount>>, <<MaxCount, BigCount>>, <<BigCount, 1>>}}

\* test_simple_chip_split: {white: 40, red: 20}, 10.00 $, 2 players
ScenarioA ==
    Input(Zip(<<"white", "red">>, <<40, 20>>), DEFAULT_CHIP_VALUES, 40, 2)

\* test_fallback_distribution: {white: 1, red: 1}, 1000.00 $, 10 players
ScenarioB ==
    Input(Zip(<<"white", "red">>, <<1, 1>>), DEFAULT_CHIP_VALUES, 4000, 10)

\* test_insufficient_chip_values_error: 5 colors, custom values [1.0, 5.0]
ScenarioC ==
    Input(Zip(<<"white", "red", "green", "black", "blue">>, <<100, 80, 60, 40, 20>>),
          <<4, 20>>, 80, 4)

\* {white: 40, red: 40}, custom values [0.25, 100.0], 270.00 $, 1 player: 1600
\* combinations, which make two batches, and no total nearer than 30.25 $
ScenarioBatches ==
    Input(Zip(<<"white", "red">>, <<40, 40>>), <<1, 400>>, 1080, 1)

\* {white: 35, red: 33}, custom values [0.25, 0.5, 1.0], 50.00 $, 1 player
ScenarioOrder ==
    Input(Zip(<<"white", "red">>, <<35, 33>>), <<1, 2, 4>>, 200, 1)

\* {white: 3}, custom values [5.0], 2.50 $, 1 player: the one permutation is
\* pruned
ScenarioPruned ==
    Input(Zip(<<"white">>, <<3>>), <<20>>, 10, 1)

\* {white: 6, red: 11}, custom values [8.5, 6.25, 5.75], 100.00 $, 1 player:
\* the third permutation evaluated yields 17 chips worth 100.75 $
ScenarioExcellent ==
    Input(Zip(<<"white", "red">>, <<6, 11>>), <<34, 25, 23>>, 400, 1)

\* {white: 3}, custom values [10.0, 2.75], 2.50 $, 1 player: both permutations
\* are pruned, and one chip of 2.75 $ is within tolerance
ScenarioLossyPrune ==
    Input(Zip(<<"white">>, <<3>>), <<40, 11>>, 10, 1)

Inputs ==
    GeneratedInputs \cup SampledInputs
    \cup {ScenarioA, ScenarioB, ScenarioC, ScenarioBatches, ScenarioOrder, ScenarioPruned,
          ScenarioExcellent, ScenarioLossyPrune}

CoreCounts == {4}

Idle ==
    /\ colors_by_availability = <<>>
    /\ max_possible_chips = 0
    /\ sorted_values = <<>>
    /\ permutations_checked = 0
    /\ pruned_count = 0
    /\ value_combination = <<>>
    /\ evaluations = 0
    /\ passed = 0
    /\ distribution = NoDistribution
    /\ best_distribution = NoDistribution
    /\ best_score = NoScore
    /\ target_combinations = <<>>
    /\ base_idx = 0
    /\ variant = <<>>
    /\ sampled_best = NoSampledBest
    /\ candidates_scored = 0
    /\ ranges = <<>>
    /\ worker_results = <<>>
    /\ finished = <<>>
    /\ player_value = NotCalled
    /\ efficiency = NotCalled

\* No command of cli.py runs.
CliIdle ==
    /\ command = "none"
    /\ config_data = ConfigData(0, 0, <<>>, <<>>, "none")
    /\ cli_pc = "idle"
    /\ config = NoConfig
    /\ raised = "none"
    /\ fixed_values = <<>>
    /\ calculator_calls = 0
    /\ exit_status = 0 - 1

\* A calculator and the arguments of one call of calculate_optimal_split.
Init ==
    /\ \E in \in Inputs :
          /\ chip_set = in.chip_set
          /\ possible_values = in.possible_values
          /\ buy_in_per_person = in.buy_in
          /\ num_players = in.num_players
    /\ num_cores \in CoreCounts
    /\ pc = "start"
    /\ result = NoDistribution
    /\ outcome = "running"
    /\ Idle
    /\ CliIdle

(* ------------------------ calculate_optimal_split ---------------------- *)

\* calculator.py:104
colors == Keys(chip_set)

\* A variant of the guard that lets a pool one value short through.
NotEnoughValues_off_by_one(pool, cols) == Len(pool) + 1 < Len(cols)

\* calculator.py:110: len(self.possible_values) < len(colors)
NotEnoughValues(pool, cols) == Len(pool) < Len(cols)

\* calculator.py:110-114
RaiseNotEnoughValues ==
    /\ pc = "start"
    /\ NotEnoughValues(possible_values, colors)
    /\ pc' = "done"
    /\ outcome' = "ValueError"
    /\ UNCHANGED <<workers, cli, inputs, search, loop, sampling, result, derived>>

\* calculator.py:129: buy_in_per_person / max_possible_chips with no chip to give
RaiseZeroDivision ==
    /\ pc = "start"
    /\ ~NotEnoughValues(possible_values, colors)
    /\ MaxPossibleChips(chip_set, num_players) = 0
    /\ pc' = "done"
    /\ outcome' = "ZeroDivisionError"
    /\ UNCHANGED <<workers, cli, inputs, search, loop, sampling, result, derived>>

\* A variant of StartSearch that sorts the calculator's pool in place.
StartSearch_sorts_pool ==
    /\ pc = "start"
    /\ ~NotEnoughValues(possible_values, colors)
    /\ MaxPossibleChips(chip_set, num_players) # 0
    /\ colors_by_availability' = ColorsByAvailability(chip_set, num_players)
    /\ max_possible_chips' = MaxPossibleChips(chip_set, num_players)
    /\ sorted_values' = SortedValues(possible_values, buy_in_per_person,
                                     MaxPossibleChips(chip_set, num_players))
    /\ possible_values' = sorted_values'
    /\ pc' = "loop"
    /\ UNCHANGED <<workers, cli, chip_set, buy_in_per_person, num_players, num_cores,
                   loop, sampling, result, outcome, derived>>

\* calculator.py:116-149
StartSearch ==
    /\ pc = "start"
    /\ ~NotEnoughValues(possible_values, colors)
    /\ MaxPossibleChips(chip_set, num_players) # 0
    /\ colors_by_availability' = ColorsByAvailability(chip_set, num_players)
    /\ max_possible_chips' = MaxPossibleChips(chip_set, num_players)
    /\ sorted_values' = SortedValues(possible_values, buy_in_per_person,
                                     MaxPossibleChips(chip_set, num_players))
    /\ pc' = "loop"
    /\ UNCHANGED <<workers, cli, inputs, loop, sampling, result, outcome, derived>>

\* calculator.py:136-138
total_permutations == FallingFactorial(Len(possible_values), Len(colors))

\* calculator.py:152-163: the next permutation is pruned
PrunePermutation ==
    /\ pc = "loop"
    /\ permutations_checked < total_permutations
    /\ Pruned(PermutationAt(sorted_values, Len(colors), permutations_checked),
              buy_in_per_person)
    /\ permutations_checked' = permutations_checked + 1
    /\ pruned_count' = pruned_count + 1
    /\ value_combination' =
          PermutationAt(sorted_values, Len(colors), permutations_checked)
    /\ UNCHANGED <<workers, cli, inputs, pc, search, evaluations, passed, distribution,
                   best_distribution, best_score, sampling, result, outcome, derived>>

\* calculator.py:152-165: the next permutation goes to _evaluate_distribution
TakePermutation ==
    /\ pc = "loop"
    /\ permutations_checked < total_permutations
    /\ ~Pruned(PermutationAt(sorted_values, Len(colors), permutations_checked),
               buy_in_per_person)
    /\ permutations_checked' = permutations_checked + 1
    /\ value_combination' =
          PermutationAt(sorted_values, Len(colors), permutations_checked)
    /\ pc' = "evaluate"
    /\ UNCHANGED <<workers, cli, inputs, search, pruned_count, evaluations, passed, distribution,
                   best_distribution, best_score, sampling, result, outcome, derived>>

\* the for loop runs out of permutations
LoopExhausted ==
    /\ pc = "loop"
    /\ permutations_checked = total_permutations
    /\ pc' = "return"
    /\ UNCHANGED <<workers, cli, inputs, search, loop, sampling, result, outcome, derived>>

\* calculator.py:221
chip_values == Zip(colors_by_availability, value_combination)

maxes == max_chips_per_color(chip_set, colors_by_availability, num_players)

\* calculator.py:223-230
EvaluateInfeasible ==
    /\ pc = "evaluate"
    /\ Infeasible(chip_set, colors_by_availability, num_players)
    /\ evaluations' = evaluations + 1
    /\ distribution' = NoDistribution
    /\ pc' = "update"
    /\ UNCHANGED <<workers, cli, inputs, search, permutations_checked, pruned_count,
                   value_combination, passed, best_distribution, best_score,
                   sampling, result, outcome, derived>>

\* calculator.py:234-305
EvaluateExhaustive ==
    /\ pc = "evaluate"
    /\ ~Infeasible(chip_set, colors_by_availability, num_players)
    /\ total_combinations(chip_set, colors_by_availability, num_players)
         <= max_combinations_threshold
    /\ evaluations' = evaluations + 1
    /\ distribution' = exhaustive_search(chip_set, colors_by_availability,
                          value_combination, buy_in_per_person, num_players, num_cores)
    /\ passed' = IF distribution' # NoDistribution THEN passed + 1 ELSE passed
    /\ pc' = "update"
    /\ UNCHANGED <<workers, cli, inputs, search, permutations_checked, pruned_count,
                   value_combination, best_distribution, best_score,
                   sampling, result, outcome, derived>>

\* A variant of SampledSeeds that samples whatever the size of the product is.
SampledSeeds_unguarded ==
    /\ pc = "evaluate"
    /\ ~Infeasible(chip_set, colors_by_availability, num_players)
    /\ evaluations' = evaluations + 1
    /\ target_combinations' =
          TargetCombinations(colors_by_availability, chip_values, maxes,
                             buy_in_per_person)
    /\ sampled_best' = ScoreCandidates(NoSampledBest, target_combinations',
                          colors_by_availability, chip_values, buy_in_per_person)
    /\ base_idx' = 1
    /\ candidates_scored' = Len(target_combinations')
    /\ pc' = "sampled"
    /\ UNCHANGED <<workers, cli, inputs, search, permutations_checked, pruned_count,
                   value_combination, passed, distribution, best_distribution,
                   best_score, variant, result, outcome, derived>>

\* calculator.py:245-249 and 319-356, and the scoring loop's pass over the seeds
\* (the first three of all_candidates)
SampledSeeds ==
    /\ pc = "evaluate"
    /\ ~Infeasible(chip_set, colors_by_availability, num_players)
    /\ total_combinations(chip_set, colors_by_availability, num_players)
         > max_combinations_threshold
    /\ evaluations' = evaluations + 1
    /\ target_combinations' =
          TargetCombinations(colors_by_availability, chip_values, maxes,
                             buy_in_per_person)
    /\ sampled_best' = ScoreCandidates(NoSampledBest, target_combinations',
                          colors_by_availability, chip_values, buy_in_per_person)
    /\ base_idx' = 1
    /\ candidates_scored' = Len(target_combinations')
    /\ pc' = "sampled"
    /\ UNCHANGED <<workers, cli, inputs, search, permutations_checked, pruned_count,
                   value_combination, passed, distribution, best_distribution,
                   best_score, variant, result, outcome, derived>>

\* calculator.py:360-372 and 378-401 for the variations of one seed.  The scoring
\* loop keeps the first candidate of the greatest score, so the 100 variations of
\* a seed act on best_combination as the first of them with their greatest
\* within-tolerance score does: that one is drawn here, and it can be any
\* variant (all 100 draws may be equal).  All VariationsPerBase of them are
\* entries of all_candidates and pass through the scoring loop.
SampledVariations ==
    /\ pc = "sampled"
    /\ base_idx <= Len(target_combinations)
    /\ \E v \in Variants(target_combinations[base_idx], maxes) :
          /\ variant' = v
          /\ sampled_best' = ScoreCandidate(sampled_best, v, colors_by_availability,
                                            chip_values, buy_in_per_person)
    /\ base_idx' = base_idx + 1
    /\ candidates_scored' = candidates_scored + VariationsPerBase
    /\ UNCHANGED <<workers, cli, inputs, pc, search, loop, target_combinations, result, outcome,
                   derived>>

\* calculator.py:403-423: the sampled search returns, and its locals are gone
SampledFinish ==
    /\ pc = "sampled"
    /\ base_idx > Len(target_combinations)
    /\ distribution' =
          IF sampled_best = NoSampledBest THEN NoDistribution
          ELSE BuildDistribution(chip_set, colors_by_availability, chip_values,
                                 sampled_best.combination, num_players)
    /\ passed' = IF distribution' # NoDistribution THEN passed + 1 ELSE passed
    /\ target_combinations' = <<>>
    /\ base_idx' = 0
    /\ variant' = <<>>
    /\ sampled_best' = NoSampledBest
    /\ candidates_scored' = 0
    /\ pc' = "update"
    /\ UNCHANGED <<workers, cli, inputs, search, permutations_checked, pruned_count,
                   value_combination, evaluations, best_distribution, best_score,
                   result, outcome, derived>>

\* calculator.py:169-170
SkipCandidate ==
    /\ pc = "update"
    /\ distribution = NoDistribution
    /\ pc' = "loop"
    /\ UNCHANGED <<workers, cli, inputs, search, loop, sampling, result, outcome, derived>>

\* calculator.py:173
ChipsOf(d) == SumSeq(Values(d.chips_per_player))

\* calculator.py:176
ErrorOf(d, buy_in) == Abs(d.total_value_per_player - buy_in)

\* calculator.py:179-184
ScoreOf(d, buy_in) == Score(accuracy_score(ErrorOf(d, buy_in)), ChipsOf(d))

\* A variant of Improves that lets an equal score replace the best.
Improves_or_equal(d, buy_in, best) ==
    \/ best = NoScore
    \/ ~FracLess(combined_score(ScoreOf(d, buy_in)), combined_score(best))

\* calculator.py:186
Improves(d, buy_in, best) ==
    \/ best = NoScore
    \/ FracLess(combined_score(best), combined_score(ScoreOf(d, buy_in)))

\* calculator.py:145-146 and 191-192: error <= 1% of the buy-in and
\* chips >= 95% of max_possible_chips
Excellent(d, buy_in, max_possible) ==
    /\ 100 * ErrorOf(d, buy_in) <= buy_in
    /\ 100 * ChipsOf(d) >= 95 * max_possible

\* calculator.py:197
Perfect(d, buy_in, max_possible) ==
    /\ ErrorOf(d, buy_in) = 0
    /\ ChipsOf(d) = max_possible

\* calculator.py:172-199
KeepBest ==
    /\ pc = "update"
    /\ distribution # NoDistribution
    /\ IF Improves(distribution, buy_in_per_person, best_score)
       THEN /\ best_score' = ScoreOf(distribution, buy_in_per_person)
            /\ best_distribution' = distribution
       ELSE UNCHANGED <<best_score, best_distribution>>
    /\ pc' = IF \/ /\ Improves(distribution, buy_in_per_person, best_score)
                   /\ Excellent(distribution, buy_in_per_person, max_possible_chips)
                \/ Perfect(distribution, buy_in_per_person, max_possible_chips)
             THEN "return" ELSE "loop"
    /\ UNCHANGED <<workers, cli, inputs, search, permutations_checked, pruned_count,
                   value_combination, evaluations, passed, distribution,
                   sampling, result, outcome, derived>>

\* A variant of ReturnFallback that raises where the search found nothing.
ReturnFallback_raises ==
    /\ pc = "return"
    /\ best_distribution = NoDistribution
    /\ outcome' = "ValueError"
    /\ pc' = "done"
    /\ UNCHANGED <<workers, cli, inputs, search, loop, sampling, result, derived>>

\* calculator.py:201-204
ReturnFallback ==
    /\ pc = "return"
    /\ best_distribution = NoDistribution
    /\ result' = _create_fallback_distribution(chip_set, colors, possible_values)
    /\ outcome' = "fallback"
    /\ pc' = "done"
    /\ UNCHANGED <<workers, cli, inputs, search, loop, sampling, derived>>

\* calculator.py:206-209
ReturnBest ==
    /\ pc = "return"
    /\ best_distribution # NoDistribution
    /\ result' = best_distribution
    /\ outcome' = "search"
    /\ pc' = "done"
    /\ UNCHANGED <<workers, cli, inputs, search, loop, sampling, derived>>

\* the caller reads the returned record: models.py:31-39
GetPlayerValue ==
    /\ pc = "done"
    /\ result # NoDistribution
    /\ player_value = NotCalled
    /\ player_value' = Frac(get_player_value(result), 1)
    /\ UNCHANGED <<workers, cli, inputs, pc, search, loop, sampling, result, outcome, efficiency>>

\* models.py:45-65
GetEfficiency ==
    /\ pc = "done"
    /\ result # NoDistribution
    /\ efficiency = NotCalled
    /\ efficiency' = get_efficiency(result)
    /\ UNCHANGED <<workers, cli, inputs, pc, search, loop, sampling, result, outcome, player_value>>

Next ==
    \/ RaiseNotEnoughValues
    \/ RaiseZeroDivision
    \/ StartSearch
    \/ PrunePermutation
    \/ TakePermutation
    \/ LoopExhausted
    \/ EvaluateInfeasible
    \/ EvaluateExhaustive
    \/ SampledSeeds
    \/ SampledVariations
    \/ SampledFinish
    \/ SkipCandidate
    \/ KeepBest
    \/ ReturnFallback
    \/ ReturnBest
    \/ GetPlayerValue
    \/ GetEfficiency

Spec == Init /\ [][Next]_vars

(* ------------- the permutation loop over a given ordering --------------- *)

\* _evaluate_distribution for a combination space within the threshold:
\* calculator.py:211-305
evaluate_distribution(cs, cols, values, buy_in, np, cores) ==
    IF Infeasible(cs, cols, np) THEN NoDistribution
    ELSE exhaustive_search(cs, cols, values, buy_in, np, cores)

\* calculator.py:152-199: the loop of calculate_optimal_split from its r-th
\* permutation on, over the colors cols and the values vals in the order given,
\* with best the best_distribution so far and best_sc its score.  The value is
\* best_distribution when the loop ends or breaks.
RECURSIVE loop_from(_, _, _, _, _, _, _, _, _)
loop_from(cs, cols, vals, buy_in, np, cores, r, best, best_sc) ==
    IF r = FallingFactorial(Len(vals), Len(cols)) THEN best
    ELSE LET vc == PermutationAt(vals, Len(cols), r)
             d == evaluate_distribution(cs, cols, vc, buy_in, np, cores)
             max_possible == MaxPossibleChips(cs, np)
         IN IF Pruned(vc, buy_in) \/ d = NoDistribution
            THEN loop_from(cs, cols, vals, buy_in, np, cores, r + 1, best, best_sc)
            ELSE IF Improves(d, buy_in, best_sc)
                 THEN IF Excellent(d, buy_in, max_possible)
                         \/ Perfect(d, buy_in, max_possible)
                      THEN d
                      ELSE loop_from(cs, cols, vals, buy_in, np, cores, r + 1,
                                     d, ScoreOf(d, buy_in))
                 ELSE IF Perfect(d, buy_in, max_possible)
                      THEN best
                      ELSE loop_from(cs, cols, vals, buy_in, np, cores, r + 1,
                                     best, best_sc)

\* calculator.py:151-209 with the loop run over cols and vals as they are given,
\* for an input whose combination space is within the threshold
search_in_order(cs, cols, vals, pool, buy_in, np, cores) ==
    LET best == loop_from(cs, cols, vals, buy_in, np, cores, 0, NoDistribution, NoScore)
    IN IF best = NoDistribution
       THEN _create_fallback_distribution(cs, Keys(cs), pool)
       ELSE best

(* ----------------- free-standing ChipDistribution records -------------- *)

\* ChipDistribution records built directly, as tests/test_models.py builds them:
\* 0..MaxColors colors, quantities and unused counts 0..MaxQuantity, unused_chips
\* complete or empty, 1..MaxPlayers players.
Records ==
    UNION {
      {ChipDistribution(
           Zip(SubSeq(ColorNames, 1, n), SubSeq(DEFAULT_CHIP_VALUES, 1, n)),
           Zip(SubSeq(ColorNames, 1, n), q),
           SumSeq([i \in 1..n |-> DEFAULT_CHIP_VALUES[i] * q[i]]),
           IF full THEN Zip(SubSeq(ColorNames, 1, n), u) ELSE <<>>,
           np) :
         q \in [1..n -> 0..MaxQuantity], u \in [1..n -> 0..MaxQuantity],
         full \in BOOLEAN, np \in 1..MaxPlayers}
      : n \in 0..MaxColors}

InitModels ==
    /\ chip_set = <<>>
    /\ possible_values = DEFAULT_CHIP_VALUES
    /\ buy_in_per_person = 0
    /\ num_players = 1
    /\ num_cores \in CoreCounts
    /\ pc = "done"
    /\ result \in Records
    /\ outcome = "constructed"
    /\ Idle
    /\ CliIdle

NextModels == GetPlayerValue \/ GetEfficiency

\* The methods of a ChipDistribution, on every record of Records.
SpecModels == InitModels /\ [][NextModels]_vars

(* ------------------ the fallback called on its own --------------------- *)

\* _create_fallback_distribution(chip_set, colors, buy_in_per_person) called
\* directly on a calculator and an inventory.
CallFallback ==
    /\ pc = "start"
    /\ result' = _create_fallback_distribution(chip_set, colors, possible_values)
    /\ outcome' = "fallback"
    /\ pc' = "done"
    /\ UNCHANGED <<workers, cli, inputs, search, loop, sampling, derived>>

NextFallback == CallFallback \/ GetPlayerValue \/ GetEfficiency

SpecFallback == Init /\ [][NextFallback]_vars

(* ------------- _evaluate_distribution and its worker pool -------------- *)

\* A batch whose worker has not returned yet.
Pending == BatchResult(<<[key |-> "pending", val |-> 0]>>, NoScore)

\* The arguments of one call of _evaluate_distribution.
Call(cs, values, buy_in, np) ==
    [chip_set |-> cs, values |-> values, buy_in |-> buy_in, num_players |-> np]

\* Calls on the small inventories, each color being given 0.25 $ or 1.00 $.
SmallCalls ==
    {Call(cs, values, b, np) :
        cs \in SmallInventories, values \in UNION {[1..n -> {1, 4}] : n \in 1..MaxColors},
        b \in BuyIns, np \in 1..MaxPlayers}

\* Calls whose product makes several batches: 1600 combinations with the values
\* of ScenarioBatches, 1600 and 2500 combinations with both colors at 0.50 $
\* and a buy-in of 25.00 $ (every batch then holds exact combinations of 50
\* chips); and a call whose product is over the threshold.
BatchedCalls ==
    { Call(Zip(<<"white", "red">>, <<40, 40>>), <<1, 400>>, 1080, 1),
      Call(Zip(<<"white", "red">>, <<40, 40>>), <<2, 2>>, 100, 1),
      Call(Zip(<<"white", "red">>, <<50, 50>>), <<2, 2>>, 100, 1),
      Call(Zip(<<"white">>, <<BigCount>>), <<1>>, 40, 1) }

Calls == {c \in SmallCalls : Len(c.values) = Len(c.chip_set)} \cup BatchedCalls

\* _evaluate_distribution(chip_set, colors, values, buy_in_per_person,
\* num_players) is entered, colors being the inventory's colors.
InitEvaluate ==
    /\ \E c \in Calls :
          /\ chip_set = c.chip_set
          /\ possible_values = c.values
          /\ buy_in_per_person = c.buy_in
          /\ num_players = c.num_players
          /\ colors_by_availability = Keys(c.chip_set)
          /\ value_combination = c.values
    /\ num_cores \in CoreCounts
    /\ pc = "evaluate"
    /\ max_possible_chips = 0
    /\ sorted_values = <<>>
    /\ permutations_checked = 0
    /\ pruned_count = 0
    /\ evaluations = 0
    /\ passed = 0
    /\ distribution = NoDistribution
    /\ best_distribution = NoDistribution
    /\ best_score = NoScore
    /\ target_combinations = <<>>
    /\ base_idx = 0
    /\ variant = <<>>
    /\ sampled_best = NoSampledBest
    /\ candidates_scored = 0
    /\ ranges = <<>>
    /\ worker_results = <<>>
    /\ finished = <<>>
    /\ player_value = NotCalled
    /\ efficiency = NotCalled
    /\ result = NoDistribution
    /\ outcome = "running"
    /\ CliIdle

\* calculator.py:259-262: the batches handed to pool.map
pool_batches == batches(all_combinations(ranges), batch_size(ProdSeq(ranges), num_cores))

\* calculator.py:223-230: a color with no chip for every player, return None
ReturnInfeasible ==
    /\ pc = "evaluate"
    /\ Infeasible(chip_set, colors_by_availability, num_players)
    /\ evaluations' = evaluations + 1
    /\ distribution' = NoDistribution
    /\ pc' = "returned"
    /\ UNCHANGED <<workers, cli, inputs, search, permutations_checked, pruned_count,
                   value_combination, passed, best_distribution, best_score,
                   sampling, result, outcome, derived>>

\* calculator.py:234-249: the ranges are built and the product is over the
\* threshold; the call goes on in _evaluate_distribution_sampled (followed in
\* Spec from SampledSeeds on)
GoSampled ==
    /\ pc = "evaluate"
    /\ ~Infeasible(chip_set, colors_by_availability, num_players)
    /\ total_combinations(chip_set, colors_by_availability, num_players)
         > max_combinations_threshold
    /\ ranges' = Values(maxes)
    /\ evaluations' = evaluations + 1
    /\ pc' = "sampling"
    /\ UNCHANGED <<worker_results, finished, cli, inputs, search, permutations_checked,
                   pruned_count, value_combination, passed, distribution,
                   best_distribution, best_score, sampling, result, outcome, derived>>

\* calculator.py:234-277: the ranges, the product and its batches are built and
\* pool.map hands one batch to each task
StartPool ==
    /\ pc = "evaluate"
    /\ ~Infeasible(chip_set, colors_by_availability, num_players)
    /\ total_combinations(chip_set, colors_by_availability, num_players)
         <= max_combinations_threshold
    /\ ranges' = Values(maxes)
    /\ worker_results' =
          [b \in 1..Len(batches(all_combinations(ranges'),
                                batch_size(ProdSeq(ranges'), num_cores))) |-> Pending]
    /\ finished' = <<>>
    /\ evaluations' = evaluations + 1
    /\ pc' = "pool"
    /\ UNCHANGED <<cli, inputs, search, permutations_checked, pruned_count,
                   value_combination, passed, distribution, best_distribution,
                   best_score, sampling, result, outcome, derived>>

\* calculator.py:23-76 run by a worker process on batch b: the task gets the
\* batch and the call's colors, chip_values and buy-in, and its return value
\* takes the batch's place in pool.map's result list.  The tasks end in any
\* order.
WorkerFinish(b) ==
    /\ pc = "pool"
    /\ worker_results[b] = Pending
    /\ worker_results' =
          [worker_results EXCEPT ![b] =
              _evaluate_combinations_batch(pool_batches[b], colors_by_availability,
                                           chip_values, buy_in_per_person)]
    /\ finished' = Append(finished, b)
    /\ UNCHANGED <<ranges, cli, inputs, pc, search, loop, sampling, result, outcome,
                   derived>>

\* A variant of Reduce that folds the results in the order the workers
\* finished in.
Reduce_as_finished ==
    /\ pc = "pool"
    /\ \A b \in 1..Len(worker_results) : worker_results[b] # Pending
    /\ LET best == ReduceResults([i \in 1..Len(finished) |-> worker_results[finished[i]]],
                                 NoBatchResult)
       IN distribution' =
             IF best = NoBatchResult THEN NoDistribution
             ELSE BuildDistribution(chip_set, colors_by_availability, chip_values,
                                    best.combination, num_players)
    /\ passed' = IF distribution' # NoDistribution THEN passed + 1 ELSE passed
    /\ pc' = "returned"
    /\ UNCHANGED <<workers, cli, inputs, search, permutations_checked, pruned_count,
                   value_combination, evaluations, best_distribution, best_score,
                   sampling, result, outcome, derived>>

\* calculator.py:276-305: pool.map returns once every task has ended, with the
\* results in the batches' order; the parent folds them and builds the record
Reduce ==
    /\ pc = "pool"
    /\ \A b \in 1..Len(worker_results) : worker_results[b] # Pending
    /\ LET best == ReduceResults(worker_results, NoBatchResult)
       IN distribution' =
             IF best = NoBatchResult THEN NoDistribution
             ELSE BuildDistribution(chip_set, colors_by_availability, chip_values,
                                    best.combination, num_players)
    /\ passed' = IF distribution' # NoDistribution THEN passed + 1 ELSE passed
    /\ pc' = "returned"
    /\ UNCHANGED <<workers, cli, inputs, search, permutations_checked, pruned_count,
                   value_combination, evaluations, best_distribution, best_score,
                   sampling, result, outcome, derived>>

NextEvaluate ==
    \/ ReturnInfeasible
    \/ GoSampled
    \/ StartPool
    \/ \E b \in 1..Len(worker_results) : WorkerFinish(b)
    \/ Reduce

\* One call of _evaluate_distribution, with the tasks of its pool.
SpecEvaluate == InitEvaluate /\ [][NextEvaluate]_vars

(* ------------------- configurations and distribute --------------------- *)

\* The counts and the values (in cents) a configuration file's entry may hold.
ConfigCounts == {0 - 1, 0, MaxCount}

ConfigValues == {0 - 25, 0, 25}

\* The entries of chip_colors: a number, a dict with or without a count and a
\* value, and a string.
ColorDatas ==
    {ColorData("number", TRUE, c, FALSE, 0) : c \in ConfigCounts}
    \cup {ColorData("dict", TRUE, c, TRUE, v) : c \in ConfigCounts, v \in ConfigValues}
    \cup {ColorData("dict", TRUE, c, FALSE, 0) : c \in ConfigCounts}
    \cup {ColorData("dict", FALSE, 0, TRUE, v) : v \in ConfigValues}
    \cup {ColorData("dict", FALSE, 0, FALSE, 0), ColorData("other", FALSE, 0, FALSE, 0)}

\* chip_colors mappings of 1..MaxColors colors
ChipColorsDatas ==
    UNION {{Zip(SubSeq(ColorNames, 1, n), cds) : cds \in [1..n -> ColorDatas]}
           : n \in 1..MaxColors}

\* tests/test_config.py:72-94: {white: 100}, 20.00 $, 4 players, and a
\* chip_values list (in cents) with a negative value, with a zero, or with
\* neither
WithChipValues ==
    {ConfigData(2000, 4, Zip(<<"white">>, <<ColorData("number", TRUE, 100, FALSE, 0)>>),
                cv, "none") :
        cv \in {<<50, 0 - 100, 200>>, <<50, 0, 200>>, <<50, 100, 300>>}}

\* a file without one of its required top-level keys
WithMissingKey ==
    {ConfigData(2000, 4, Zip(<<"white">>, <<ColorData("number", TRUE, 100, FALSE, 0)>>),
                <<>>, m) :
        m \in {"buy_in_per_person", "num_players", "chip_colors"}}

\* Scenario D: {white: 100 at 0.25, red: 100 at 0.10}, 5.00 $, 9 players
ScenarioD ==
    ConfigData(500, 9,
        Zip(<<"white", "red">>,
            <<ColorData("dict", TRUE, 100, TRUE, 25), ColorData("dict", TRUE, 100, TRUE, 10)>>),
        <<>>, "none")

ConfigDatas ==
    {ConfigData(2000, 4, cc, <<>>, "none") : cc \in ChipColorsDatas}
    \cup WithChipValues \cup WithMissingKey \cup {ScenarioD}

\* A parsed configuration file and what runs on it: PokerConfig.from_dict
\* alone, or cli.py's distribute_command.
InitCli ==
    /\ chip_set = <<>>
    /\ possible_values = DEFAULT_CHIP_VALUES
    /\ buy_in_per_person = 0
    /\ num_players = 1
    /\ num_cores \in CoreCounts
    /\ pc = "cli"
    /\ result = NoDistribution
    /\ outcome = "running"
    /\ Idle
    /\ command \in {"from_dict", "distribute"}
    /\ config_data \in ConfigDatas
    /\ cli_pc = "start"
    /\ config = NoConfig
    /\ raised = "none"
    /\ fixed_values = <<>>
    /\ calculator_calls = 0
    /\ exit_status = 0 - 1

calculator_state ==
    <<inputs, pc, search, loop, sampling, workers, result, outcome, derived>>

\* PokerConfig.from_dict called on its own: config.py:143-197
FromDict ==
    /\ command = "from_dict"
    /\ cli_pc = "start"
    /\ config' = from_dict(config_data).config
    /\ raised' = from_dict(config_data).raised
    /\ cli_pc' = "returned"
    /\ UNCHANGED <<calculator_state, command, config_data, fixed_values,
                   calculator_calls, exit_status>>

\* cli.py:193-197: distribute_command loads the configuration
DistributeLoad ==
    /\ command = "distribute"
    /\ cli_pc = "start"
    /\ from_dict(config_data).raised = "none"
    /\ config' = from_dict(config_data).config
    /\ cli_pc' = "loaded"
    /\ UNCHANGED <<calculator_state, command, config_data, raised, fixed_values,
                   calculator_calls, exit_status>>

\* cli.py:195 and 256-258: the configuration is invalid, and the command
\* returns 1
DistributeLoadFails ==
    /\ command = "distribute"
    /\ cli_pc = "start"
    /\ from_dict(config_data).raised # "none"
    /\ raised' = from_dict(config_data).raised
    /\ exit_status' = 1
    /\ cli_pc' = "exited"
    /\ UNCHANGED <<calculator_state, command, config_data, config, fixed_values,
                   calculator_calls>>

\* cli.py:199-209 and 256-258: a color has no fixed value
DistributeMissingValues ==
    /\ command = "distribute"
    /\ cli_pc = "loaded"
    /\ ~has_fixed_values(config)
    /\ raised' = "ValueError"
    /\ exit_status' = 1
    /\ cli_pc' = "exited"
    /\ UNCHANGED <<calculator_state, command, config_data, config, fixed_values,
                   calculator_calls>>

\* cli.py:211-235 and 259-261: every color has a fixed value.  The command
\* builds a ChipSplitCalculator and looks up calculate_distribution_with_values
\* on it; calculator.py defines no such method, so the lookup raises
\* AttributeError before any method of the calculator runs, and the command
\* returns 1.
DistributeCalculate ==
    /\ command = "distribute"
    /\ cli_pc = "loaded"
    /\ has_fixed_values(config)
    /\ fixed_values' = get_fixed_chip_values(config).values
    /\ raised' = "AttributeError"
    /\ exit_status' = 1
    /\ cli_pc' = "exited"
    /\ UNCHANGED <<calculator_state, command, config_data, config, calculator_calls>>

NextCli ==
    \/ FromDict
    \/ DistributeLoad
    \/ DistributeLoadFails
    \/ DistributeMissingValues
    \/ DistributeCalculate

SpecCli == InitCli /\ [][NextCli]_vars

(* ------------------------------ properties ----------------------------- *)

\* C1: no over-allocation.  Every record calculate_optimal_split returns, by
\* exhaustive search, by sampled search or by the fallback, gives
\* chips_per_player[c] * num_players <= inventory[c] for every color c.
C1_NoOverAllocation ==
    (pc = "done" /\ result # NoDistribution) =>
        \A i \in 1..Len(result.chips_per_player) :
            result.chips_per_player[i].val * num_players
                <= get_color_count(chip_set, result.chips_per_player[i].key)

\* C2: insufficient pool.  With fewer pool values than inventory colors the call
\* ends with the ValueError, and before that no permutation is enumerated and
\* no Quantity Search is started.
C2_InsufficientPool ==
    (Len(possible_values) < Len(chip_set)) =>
        /\ pc \in {"start", "done"}
        /\ pc = "done" => outcome = "ValueError"
        /\ result = NoDistribution
        /\ permutations_checked = 0
        /\ pruned_count = 0
        /\ evaluations = 0
        /\ sorted_values = <<>>

\* C2's case: test_insufficient_chip_values_error has ended with the ValueError.
C2_InsufficientPool_Reached ==
    /\ pc = "done"
    /\ outcome = "ValueError"
    /\ chip_set = ScenarioC.chip_set
    /\ possible_values = ScenarioC.possible_values

\* C3: an infeasible inventory falls back.  With a pool large enough and a color
\* whose floor(count / num_players) is 0, the call raises nothing and returns
\* the fallback record with quantity 1 of every color, also when every color's
\* floor is 0.
C3_InfeasibleFallsBack ==
    (/\ pc = "done"
     /\ Len(possible_values) >= Len(chip_set)
     /\ \E k \in 1..Len(chip_set) : chip_set[k].val \div num_players = 0) =>
        /\ outcome = "fallback"
        /\ Keys(result.chips_per_player) = Keys(chip_set)
        /\ \A i \in 1..Len(result.chips_per_player) :
              result.chips_per_player[i].val = 1

\* C4: the fallback record's shape.  For an inventory of n colors and a pool of
\* at least n values, _create_fallback_distribution returns a record that gives
\* the i-th pool value to the i-th inventory color, quantity 1 to every color,
\* and a stored total equal to the sum of those n values, which is positive.
C4_FallbackShape ==
    (pc = "done" /\ Len(possible_values) >= Len(chip_set)) =>
        /\ outcome = "fallback"
        /\ result # NoDistribution
        /\ Keys(result.chip_values) = Keys(chip_set)
        /\ \A i \in 1..Len(chip_set) : result.chip_values[i].val = possible_values[i]
        /\ Keys(result.chips_per_player) = Keys(chip_set)
        /\ \A i \in 1..Len(chip_set) : result.chips_per_player[i].val = 1
        /\ result.total_value_per_player
             = SumSeq(SubSeq(possible_values, 1, Len(chip_set)))
        /\ result.total_value_per_player > 0

\* C4's case: the fallback of a two-color inventory with the pool 5.00/1.00/0.25
\* took 5.00 and 1.00, in that order.
C4_FallbackShape_Reached ==
    /\ pc = "done"
    /\ outcome = "fallback"
    /\ Len(chip_set) = 2
    /\ possible_values = <<20, 4, 1>>
    /\ Values(result.chip_values) = <<20, 4>>
    /\ result.total_value_per_player = 24

\* C5: the fallback's unused counts.  In the fallback record unused[c] is
\* inventory[c] - num_players, or 0 where the color holds fewer chips than that.
C5_FallbackUnused ==
    (pc = "done" /\ outcome = "fallback") =>
        /\ Keys(result.unused_chips) = Keys(chip_set)
        /\ \A i \in 1..Len(chip_set) :
              result.unused_chips[i].val
                 = (IF chip_set[i].val - num_players > 0
                    THEN chip_set[i].val - num_players ELSE 0)

\* C6: tolerance of search results.  Every record Quantity Search returns, and
\* so the record the call returns once a permutation has passed, has
\* |total - buy-in| <= 20% of the buy-in; the call then returns a search result.
C6_Tolerance ==
    /\ distribution # NoDistribution =>
          5 * Abs(distribution.total_value_per_player - buy_in_per_person)
             <= buy_in_per_person
    /\ best_distribution # NoDistribution => passed > 0
    /\ (pc = "done" /\ passed > 0) =>
          /\ outcome = "search"
          /\ 5 * Abs(result.total_value_per_player - buy_in_per_person)
                <= buy_in_per_person

\* C6's case: test_simple_chip_split has returned a search result with more than
\* 0 chips per player.
C6_Tolerance_Reached ==
    /\ pc = "done"
    /\ chip_set = ScenarioA.chip_set
    /\ possible_values = ScenarioA.possible_values
    /\ buy_in_per_person = ScenarioA.buy_in
    /\ num_players = ScenarioA.num_players
    /\ passed > 0
    /\ outcome = "search"
    /\ SumSeq(Values(result.chips_per_player)) > 0

\* C7: bijective value assignment.  For a pool of pairwise distinct values, at
\* least as many as colors, every returned record gives a value to each
\* inventory color and to no other key, each given value is in the pool, and no
\* two colors share one.
C7_Bijective ==
    (/\ pc = "done"
     /\ result # NoDistribution
     /\ Len(possible_values) >= Len(chip_set)
     /\ \A i, j \in 1..Len(possible_values) :
           i # j => possible_values[i] # possible_values[j]) =>
        LET cv == result.chip_values
        IN /\ Len(cv) = Len(chip_set)
           /\ {cv[i].key : i \in 1..Len(cv)} = {chip_set[i].key : i \in 1..Len(chip_set)}
           /\ \A i \in 1..Len(cv) :
                 \E j \in 1..Len(possible_values) : cv[i].val = possible_values[j]
           /\ \A i, j \in 1..Len(cv) : i # j => cv[i].val # cv[j].val

\* C7's case: a search over the unsorted pool 5.00/1.00/0.25 has returned a
\* record for a two-color inventory.
C7_Bijective_Reached ==
    /\ pc = "done"
    /\ outcome = "search"
    /\ Len(chip_set) = 2
    /\ possible_values = <<20, 4, 1>>
    /\ Len(result.chip_values) = 2

\* C8: round trip of the total.  For every returned record get_player_value()
\* equals the stored total_value_per_player.
C8_RoundTrip ==
    (pc = "done" /\ outcome \in {"search", "fallback"} /\ player_value # NotCalled) =>
        player_value = Frac(result.total_value_per_player, 1)

\* C9: efficiency range.  get_efficiency() of a record with non-negative
\* quantities and unused counts and num_players >= 1 lies in [0, 100], and is 0
\* exactly when the record uses no chip.
C9_EfficiencyRange ==
    (outcome = "constructed" /\ efficiency # NotCalled) =>
        LET used == SumSeq([i \in 1..Len(result.chips_per_player) |->
                              result.chips_per_player[i].val * result.num_players])
        IN /\ efficiency.den > 0
           /\ 0 <= efficiency.num
           /\ efficiency.num <= 100 * efficiency.den
           /\ (efficiency.num = 0) <=> (used = 0)

\* C9's case: get_efficiency() was called on a record that uses no chip and
\* leaves some unused.
C9_EfficiencyRange_Reached ==
    /\ outcome = "constructed"
    /\ efficiency # NotCalled
    /\ efficiency.num = 0
    /\ Len(result.chips_per_player) > 0
    /\ SumSeq(Values(result.chips_per_player)) = 0
    /\ SumSeq(Values(result.unused_chips)) > 0

\* C9 as stated: get_efficiency() lies in [0, 100], and is 0 exactly when the
\* used and the unused chip counts are both 0.
C9_EfficiencyZeroIffNoChips ==
    (outcome = "constructed" /\ efficiency # NotCalled) =>
        LET used == SumSeq([i \in 1..Len(result.chips_per_player) |->
                              result.chips_per_player[i].val * result.num_players])
            unused == SumSeq(Values(result.unused_chips))
        IN /\ efficiency.den > 0
           /\ 0 <= efficiency.num
           /\ efficiency.num <= 100 * efficiency.den
           /\ (efficiency.num = 0) <=> (used = 0 /\ unused = 0)

\* C10: efficiency of a returned record.  For every record the call returns,
\* get_efficiency() is 100 * (sum of quantity[c] * num_players) / (sum of the
\* inventory's counts).
C10_EfficiencyOfReturned ==
    (pc = "done" /\ outcome \in {"search", "fallback"} /\ efficiency # NotCalled) =>
        efficiency.num * SumSeq(Values(chip_set))
           = 100 * SumSeq(Values(result.chips_per_player)) * num_players
                 * efficiency.den

\* C11: derived unused count.  Every record Quantity Search produces, on the
\* exhaustive or the sampled path, has unused[c] = inventory[c] -
\* quantity[c] * num_players for every inventory color c, which is not negative.
C11_DerivedUnused ==
    (distribution # NoDistribution) =>
        /\ Len(distribution.unused_chips) = Len(chip_set)
        /\ \A k \in 1..Len(chip_set) :
              LET c == chip_set[k].key
              IN /\ \E i \in 1..Len(distribution.unused_chips) :
                       /\ distribution.unused_chips[i].key = c
                       /\ \E j \in 1..Len(distribution.chips_per_player) :
                             /\ distribution.chips_per_player[j].key = c
                             /\ distribution.unused_chips[i].val
                                  = chip_set[k].val
                                      - distribution.chips_per_player[j].val * num_players
                 /\ \A i \in 1..Len(distribution.unused_chips) :
                       distribution.unused_chips[i].val >= 0

\* C11's case: Quantity Search has produced a record for two players that
\* leaves a chip unused.
C11_DerivedUnused_Reached ==
    /\ distribution # NoDistribution
    /\ num_players = 2
    /\ \E i \in 1..Len(distribution.unused_chips) :
          distribution.unused_chips[i].val > 0

\* C12: fixed-value distribution mode.  When every color of a valid
\* configuration carries a fixed value, distribute_command runs the calculator
\* once and ends without an error, with exit status 0.
C12_FixedValueMode ==
    (/\ command = "distribute"
     /\ cli_pc = "exited"
     /\ config_data.missing = "none"
     /\ \A i \in 1..Len(config_data.chip_colors) :
           LET cd == config_data.chip_colors[i].val
           IN cd.kind = "dict" /\ cd.has_count /\ cd.count >= 0
                /\ cd.has_value /\ cd.value > 0) =>
        /\ raised = "none"
        /\ calculator_calls = 1
        /\ exit_status = 0

\* C13: missing fixed values.  When distribute runs on a configuration of which
\* a color has no fixed value, get_fixed_chip_values raises ValueError naming
\* the colors without one, and distribute_command ends with exit status 1
\* without a call of the calculator.
C13_MissingFixedValues ==
    (/\ command = "distribute"
     /\ cli_pc = "exited"
     /\ config # NoConfig
     /\ \E i \in 1..Len(config.chip_colors) : ~config.chip_colors[i].val.has_value) =>
        /\ exit_status = 1
        /\ raised = "ValueError"
        /\ calculator_calls = 0
        /\ fixed_values = <<>>
        /\ get_fixed_chip_values(config).raised = "ValueError"
        /\ get_fixed_chip_values(config).missing
             = {config_data.chip_colors[i].key :
                  i \in {j \in 1..Len(config_data.chip_colors) :
                           ~config_data.chip_colors[j].val.has_value}}

\* C13's case: distribute has ended on a configuration of two colors, one with
\* a fixed value and one without.
C13_MissingFixedValues_Reached ==
    /\ command = "distribute"
    /\ cli_pc = "exited"
    /\ Len(config.chip_colors) = 2
    /\ config.chip_colors[1].val.has_value
    /\ ~config.chip_colors[2].val.has_value
    /\ exit_status = 1

\* C14: the search-order heuristics are result-neutral.  The record the call
\* returns gives every color the value and the quantity that the same search
\* gives it when run over the colors and the pool in their original order.
C14_HeuristicsNeutral ==
    (/\ pc = "done"
     /\ outcome \in {"search", "fallback"}
     /\ total_combinations(chip_set, colors, num_players)
           <= max_combinations_threshold) =>
        LET plain == search_in_order(chip_set, colors, possible_values,
                        possible_values, buy_in_per_person, num_players, num_cores)
            pairs(d) == {d[i] : i \in 1..Len(d)}
        IN /\ pairs(result.chip_values) = pairs(plain.chip_values)
           /\ pairs(result.chips_per_player) = pairs(plain.chips_per_player)

\* C15: infeasible and tolerance-miss are distinguishable.  What Quantity Search
\* returns for a value assignment that no combination brings within tolerance
\* differs from what it returns for an infeasible one (None): a call on a
\* feasible inventory never returns that.
C15_FailuresDistinguishable ==
    (/\ pc = "update"
     /\ \A k \in 1..Len(chip_set) : chip_set[k].val \div num_players > 0) =>
        distribution # NoDistribution

\* C16: a tolerance-miss falls back silently.  When every color holds a chip for
\* every player and no permutation passed Quantity Search (none within
\* tolerance, or all pruned), the call raises nothing and returns the fallback
\* record: quantity 1 of every color, and a stored total that is the value one
\* player holds.
C16_ToleranceMissFallsBack ==
    (/\ pc = "done"
     /\ Len(possible_values) >= Len(chip_set)
     /\ \A k \in 1..Len(chip_set) : chip_set[k].val \div num_players > 0
     /\ passed = 0) =>
        /\ outcome = "fallback"
        /\ Keys(result.chips_per_player) = Keys(chip_set)
        /\ \A i \in 1..Len(chip_set) : result.chips_per_player[i].val = 1
        /\ result.total_value_per_player
             = SumSeq(SubSeq(possible_values, 1, Len(chip_set)))

\* C16's case: the only permutation of ScenarioPruned was pruned, and the call
\* returned the fallback.
C16_ToleranceMissFallsBack_Reached ==
    /\ pc = "done"
    /\ chip_set = ScenarioPruned.chip_set
    /\ possible_values = ScenarioPruned.possible_values
    /\ pruned_count = 1
    /\ evaluations = 0
    /\ outcome = "fallback"

\* C17: the configuration rejects non-positive candidate values.  from_dict
\* raises ValueError, and returns no config, when the file's chip_values list
\* holds a zero or a negative value.
C17_RejectsNonPositiveChipValues ==
    (/\ command = "from_dict"
     /\ cli_pc = "returned"
     /\ \E i \in 1..Len(config_data.chip_values) : config_data.chip_values[i] <= 0) =>
        /\ raised = "ValueError"
        /\ config = NoConfig

\* C18: inventory validity from configuration.  from_dict raises ValueError,
\* and nothing else, for an entry with a negative count or a value <= 0 and for
\* a missing required field; a config it returns has only non-negative counts
\* and only positive fixed values.
C18_InventoryValidity ==
    (command = "from_dict" /\ cli_pc = "returned") =>
        /\ raised \in {"none", "ValueError"}
        /\ (raised = "none") <=> (config # NoConfig)
        /\ (\/ config_data.missing # "none"
            \/ \E i \in 1..Len(config_data.chip_colors) :
                  LET cd == config_data.chip_colors[i].val
                  IN \/ cd.kind = "dict" /\ ~cd.has_count
                     \/ cd.kind \in {"number", "dict"} /\ cd.has_count /\ cd.count < 0
                     \/ cd.kind = "dict" /\ cd.has_value /\ cd.value <= 0)
             => raised = "ValueError"
        /\ \A i \in 1..Len(config.chip_colors) :
              /\ config.chip_colors[i].val.count >= 0
              /\ config.chip_colors[i].val.has_value
                    => config.chip_colors[i].val.value > 0

\* C18's case: from_dict has raised ValueError on a file whose first color has
\* a negative count.
C18_InventoryValidity_Reached ==
    /\ command = "from_dict"
    /\ cli_pc = "returned"
    /\ raised = "ValueError"
    /\ Len(config_data.chip_colors) = 2
    /\ config_data.chip_colors[1].val.has_count
    /\ config_data.chip_colors[1].val.count < 0

\* C19: the batched search returns the global best.  For a value assignment
\* whose combination space is within the threshold, _evaluate_distribution
\* returns None only if no combination is within tolerance, and otherwise a
\* combination whose score accuracy * 100 + chips is the highest among all
\* within-tolerance combinations of the whole product.
C19_BatchedGlobalBest ==
    (/\ pc = "update"
     /\ \A k \in 1..Len(chip_set) : chip_set[k].val \div num_players > 0
     /\ total_combinations(chip_set, colors, num_players)
           <= max_combinations_threshold) =>
        LET combos == all_combinations(Values(maxes))
            err(c) == Abs(SumSeq([k \in 1..Len(c) |-> c[k] * value_combination[k]])
                            - buy_in_per_person)
            valid == {i \in 1..Len(combos) :
                         5 * err(combos[i]) <= buy_in_per_person}
            sc(c) == combined_score(Score(accuracy_score(err(c)), SumSeq(c)))
        IN IF valid = {}
           THEN distribution = NoDistribution
           ELSE /\ distribution # NoDistribution
                /\ \A i \in valid :
                      ~FracLess(combined_score(ScoreOf(distribution, buy_in_per_person)),
                                sc(combos[i]))

\* C20: accuracy dominates the chip count.  Of two within-tolerance
\* combinations of one exhaustive evaluation whose deviations differ by more
\* than 0.25 $, the one with the smaller deviation has the strictly higher
\* score accuracy * 100 + chips.
C20_AccuracyDominates ==
    (/\ pc = "update"
     /\ \A k \in 1..Len(chip_set) : chip_set[k].val \div num_players > 0
     /\ total_combinations(chip_set, colors, num_players)
           <= max_combinations_threshold) =>
        LET combos == all_combinations(Values(maxes))
            err == [i \in 1..Len(combos) |->
                      Abs(SumSeq([k \in 1..Len(combos[i]) |->
                                    combos[i][k] * value_combination[k]])
                            - buy_in_per_person)]
            valid == {i \in 1..Len(combos) : 5 * err[i] <= buy_in_per_person}
            sc == [i \in valid |->
                      combined_score(Score(accuracy_score(err[i]), SumSeq(combos[i])))]
        IN \A i, j \in valid : err[i] + 1 < err[j] => FracLess(sc[j], sc[i])

\* C21: the sampled search's order of preference.  Among the candidates the
\* sampled search has scored that are within tolerance, one whose deviation is
\* over 0.25 $ is not the chosen one while another has a smaller deviation and
\* fewer chips: the chip count decides only inside the 0.25 $ band.
C21_SampledPreference ==
    (pc = "sampled" /\ sampled_best # NoSampledBest) =>
        LET value(c) == SumSeq([k \in 1..Len(colors_by_availability) |->
                                  Get(c, colors_by_availability[k])
                                     * Get(chip_values, colors_by_availability[k])])
            err(c) == Abs(value(c) - buy_in_per_person)
            chips(c) == SumSeq(Values(c))
            chosen == sampled_best.combination
            scored == {target_combinations[i] : i \in 1..Len(target_combinations)}
                        \cup (IF variant = <<>> THEN {} ELSE {variant})
        IN \A c \in scored :
              (/\ 5 * err(c) <= buy_in_per_person
               /\ err(chosen) > 1
               /\ err(c) < err(chosen)) => chips(chosen) <= chips(c)

\* C22: early termination.  Once an evaluated permutation has yielded a record
\* with deviation <= 1% of the buy-in and chips per player >= 95% of
\* max_possible_chips, the loop takes no further permutation: its next step is
\* the return.
C22_EarlyTermination ==
    [][(/\ pc = "update"
        /\ distribution # NoDistribution
        /\ 100 * ErrorOf(distribution, buy_in_per_person) <= buy_in_per_person
        /\ 100 * ChipsOf(distribution) >= 95 * max_possible_chips)
          => pc' = "return"]_vars

\* C23: the strategy is selected by the threshold.  For a feasible value
\* assignment, _evaluate_distribution scores the whole Cartesian product exactly
\* when the product of the floors inventory[c] / players is <= 200,000, and goes
\* to the sampled search exactly when it is greater; the sampled search has
\* scored 3 seeds and 100 variations of each, 303 candidates, when it ends,
\* which is less than the product.
C23_StrategySelection ==
    /\ [][(/\ pc = "evaluate"
           /\ \A k \in 1..Len(chip_set) : chip_set[k].val \div num_players > 0)
            => LET product ==
                     ProdSeq([k \in 1..Len(chip_set) |->
                                chip_set[k].val \div num_players])
               IN /\ (product <= 200000) <=>
                        /\ pc' = "update"
                        /\ distribution' =
                              exhaustive_search(chip_set, colors_by_availability,
                                  value_combination, buy_in_per_person,
                                  num_players, num_cores)
                  /\ (product > 200000) <=> (pc' = "sampled")]_vars
    /\ [](pc = "sampled" =>
            /\ Len(target_combinations) = 3
            /\ candidates_scored = 3 + 100 * (base_idx - 1)
            /\ candidates_scored <= 303
            /\ candidates_scored
                 < ProdSeq([k \in 1..Len(chip_set) |->
                              chip_set[k].val \div num_players]))

\* the sampled search has scored all its candidates
C23_StrategySelection_Reached ==
    /\ pc = "sampled"
    /\ base_idx > Len(target_combinations)
    /\ candidates_scored = 303
    /\ total_combinations(chip_set, colors_by_availability, num_players) > 200000

\* C24: every quantity vector that is scored stays within the quantity ranges.
\* Each element of the exhaustive product, each of the three seeds and each
\* variant a draw can make gives every color c a quantity q with
\* 1 <= q <= inventory[c] \div players, and the range the random adjustment is
\* drawn from is never empty.
C24_QuantityRanges ==
    LET floor(c) == Get(chip_set, c) \div num_players
        in_range(q) == \A i \in 1..Len(q) : 1 <= q[i].val /\ q[i].val <= floor(q[i].key)
    IN /\ (/\ pc = "evaluate"
           /\ \A k \in 1..Len(chip_set) : chip_set[k].val \div num_players > 0
           /\ total_combinations(chip_set, colors_by_availability, num_players)
                <= max_combinations_threshold) =>
             LET combos == all_combinations(Values(maxes))
             IN \A n \in 1..Len(combos) :
                   in_range(Zip(colors_by_availability, combos[n]))
       /\ pc = "sampled" =>
             /\ \A n \in 1..Len(target_combinations) :
                   /\ in_range(target_combinations[n])
                   /\ \A i \in 1..Len(target_combinations[n]) :
                         Adjustments(target_combinations[n][i].val,
                                     floor(target_combinations[n][i].key)) # {}
                   /\ \A v \in Variants(target_combinations[n], maxes) : in_range(v)
             /\ variant # <<>> => in_range(variant)

\* a variant of a seed that holds a color at its only possible quantity, 1, has
\* been scored
C24_QuantityRanges_Reached ==
    /\ pc = "sampled"
    /\ variant # <<>>
    /\ \E i \in 1..Len(variant) :
          /\ Get(chip_set, variant[i].key) \div num_players = 1
          /\ variant[i].val = 1
    /\ \E i \in 1..Len(variant) : variant[i].val # target_combinations[base_idx - 1][i].val

\* C26: the parallel evaluation has no interleaved updates.  The result of a
\* batch is the one _evaluate_combinations_batch gives for that batch alone,
\* whichever workers finished before it; the parent holds no record while a task
\* is still running; and the record the call returns is the one the batches
\* give when folded in their own order, in whatever order the workers finished.
C26_NoInterleavedUpdates ==
    /\ \A b \in 1..Len(worker_results) :
          worker_results[b] # Pending =>
             worker_results[b] =
                _evaluate_combinations_batch(pool_batches[b], colors_by_availability,
                                             chip_values, buy_in_per_person)
    /\ pc = "pool" => distribution = NoDistribution
    /\ (pc = "returned" /\ worker_results # <<>>) =>
          /\ \A b \in 1..Len(worker_results) :
                \E i \in 1..Len(finished) : finished[i] = b
          /\ distribution =
                exhaustive_search(chip_set, colors_by_availability, value_combination,
                                  buy_in_per_person, num_players, num_cores)

\* the call has returned after the worker of a later batch finished before the
\* worker of an earlier one, the two batches having results of equal score
C26_NoInterleavedUpdates_Reached ==
    /\ pc = "returned"
    /\ distribution # NoDistribution
    /\ \E i, j \in 1..Len(finished) :
          /\ i < j
          /\ finished[i] > finished[j]
          /\ worker_results[finished[i]] # NoBatchResult
          /\ worker_results[finished[i]].score = worker_results[finished[j]].score

\* C25: immediate infeasibility.  A call of _evaluate_distribution has returned
\* None with no ranges built, no combination enumerated and no task handed to a
\* worker exactly when inventory[c] \div players is 0 for some color c, and then
\* whatever values the colors were assigned.
C25_ImmediateInfeasibility ==
    pc # "evaluate" =>
       LET short == \E k \in 1..Len(chip_set) : chip_set[k].val \div num_players = 0
       IN /\ short <=> (pc = "returned" /\ ranges = <<>> /\ worker_results = <<>>)
          /\ short => (distribution = NoDistribution /\ finished = <<>>)

\* a call with one color short and another one not has returned
C25_ImmediateInfeasibility_Reached ==
    /\ pc = "returned"
    /\ evaluations = 1
    /\ ranges = <<>>
    /\ distribution = NoDistribution
    /\ \E k \in 1..Len(chip_set) : chip_set[k].val \div num_players = 0
    /\ \E k \in 1..Len(chip_set) : chip_set[k].val \div num_players > 0

\* C27: the best-so-far accumulator.  best_score is the score of the retained
\* best_distribution.  An iteration that evaluated a record leaves a retained
\* best whose score accuracy * 100 + chips is at least the record's and at least
\* the former best's, and it replaces the best only by the record itself and
\* only when the record's score is strictly higher (on a tie the earlier record
\* stays).  No other step touches the best, and a search that retained a record
\* returns that record.
C27_BestSoFar ==
    /\ [](best_distribution # NoDistribution =>
             best_score = Score(accuracy_score(Abs(best_distribution.total_value_per_player
                                                     - buy_in_per_person)),
                                SumSeq(Values(best_distribution.chips_per_player))))
    /\ [][(pc = "update" /\ distribution # NoDistribution) =>
            LET sc(d) == combined_score(
                            Score(accuracy_score(Abs(d.total_value_per_player
                                                       - buy_in_per_person)),
                                  SumSeq(Values(d.chips_per_player))))
            IN /\ best_distribution' # NoDistribution
               /\ ~FracLess(sc(best_distribution'), sc(distribution))
               /\ best_distribution # NoDistribution =>
                     ~FracLess(sc(best_distribution'), sc(best_distribution))
               /\ best_distribution' # best_distribution =>
                     /\ best_distribution' = distribution
                     /\ \/ best_distribution = NoDistribution
                        \/ FracLess(sc(best_distribution), sc(distribution))]_vars
    /\ [][pc # "update" => best_distribution' = best_distribution]_vars
    /\ [][(pc = "return" /\ best_distribution # NoDistribution) =>
             result' = best_distribution]_vars

\* an iteration has met a record that ties with the retained best, and kept
\* the earlier one
C27_BestSoFar_Reached ==
    /\ pc = "loop"
    /\ distribution # NoDistribution
    /\ best_distribution # NoDistribution
    /\ distribution # best_distribution
    /\ FracEq(combined_score(ScoreOf(distribution, buy_in_per_person)),
              combined_score(best_score))

\* C28: the average-value prune is lossless.  A permutation the loop has just
\* skipped because the mean of its values is over the buy-in (or under 0.01 $)
\* is one _evaluate_distribution returns None for, and a call that ends in the
\* fallback is one where _evaluate_distribution returns None for every
\* permutation of the pool (combination spaces within the threshold).
C28_PruneLossless ==
    LET within == total_combinations(chip_set, colors_by_availability, num_players)
                     <= max_combinations_threshold
        none(values) ==
            evaluate_distribution(chip_set, colors_by_availability, values,
                                  buy_in_per_person, num_players, num_cores)
               = NoDistribution
    IN /\ (/\ pc = "loop"
           /\ within
           /\ value_combination # <<>>
           /\ \/ SumSeq(value_combination)
                   > buy_in_per_person * Len(value_combination)
              \/ 25 * SumSeq(value_combination) < Len(value_combination))
          => none(value_combination)
       /\ (pc = "done" /\ outcome = "fallback" /\ within)
          => \A r \in 0..(total_permutations - 1) :
                none(PermutationAt(sorted_values, Len(colors), r))

\* C29: the inputs are left unchanged.  No step of calculate_optimal_split, on
\* the path to a configuration error, to a search result or to the fallback,
\* changes the inventory's color-to-count mapping or the calculator's value
\* pool, in contents or in order.
C29_InputsUnchanged ==
    [][chip_set' = chip_set /\ possible_values' = possible_values]_vars

\* a search has returned a record after sorting both the colors and the pool
\* into another order than theirs
C29_InputsUnchanged_Reached ==
    /\ pc = "done"
    /\ outcome = "search"
    /\ sorted_values # possible_values
    /\ colors_by_availability # Keys(chip_set)

====
